---------------------------- MODULE Spec2Model ----------------------------
(***************************************************************************)
(* Model of the opex-debt-scanner analytics core: the validator and        *)
(* cleaner (validators.py), the metrics functions (metrics.py), the        *)
(* strategy engine (strategies.py) and the analysis run of main() with     *)
(* the functions it calls (app.py).                                        *)
(*                                                                         *)
(* Numbers are exact rationals [n, d] in lowest terms with d > 0, so that  *)
(* means, interpolated quantiles and rounding are computed as the code     *)
(* computes them over the reals (binary floating point error is not        *)
(* modelled).  A table cell is a tagged record: k = "num" for a number,    *)
(* "nan" for a missing value, "str" for text that is not a number.         *)
(***************************************************************************)
EXTENDS Integers, Sequences, FiniteSets, TLC

VARIABLES
    df,                 \* validator/cleaner harness: the dataset under test
    vres,               \* result of validate_csv(df), or the "not called" record
    out,                \* outputs of the successive clean_data applications
    cap,                \* cap_outliers argument of those applications
    call,               \* metrics harness: the last function call and its result
    pc,                 \* position of the analysis run inside main()
    data_source,        \* "Generate Synthetic" or "Upload CSV"
    heap,               \* the DataFrame objects allocated by the run
    raw_df,             \* reference (index into heap) held by main
    processed_df,       \* reference returned by detect_operational_anomalies
    detect_call,        \* argument reference of that call and its value before
    hourly_rate,        \* sidebar input
    baseline_latency,
    anomalies_calc,     \* anomalous rows with Wasted_ms
    total_wasted_hours,
    financial_loss,
    roi_data,
    anomalies_severity,
    strategy            \* (worst_ep, steps) of run_executive_agent_analysis

harnessVars == <<df, vres, out, cap, call>>

runVars == <<pc, data_source, heap, raw_df, processed_df, detect_call,
             hourly_rate, baseline_latency, anomalies_calc,
             total_wasted_hours, financial_loss, roi_data, anomalies_severity,
             strategy>>

vars == <<harnessVars, runVars>>

----------------------------------------------------------------------------
(* Bounds of the model *)

MaxRowsV == 2           \* rows of a dataset handed to validate_csv
MaxRowsC == 3           \* rows of a dataset handed to clean_data
MaxRows == 3            \* rows of a dataset analysed by main()

----------------------------------------------------------------------------
(* Exact rational arithmetic *)

Abs(x) == IF x < 0 THEN -x ELSE x

RECURSIVE GCD(_, _)
GCD(a, b) == IF b = 0 THEN a ELSE GCD(b, a % b)

\* n/d in lowest terms, d > 0 required
Norm(n, d) == LET g == GCD(Abs(n), d) IN [n |-> n \div g, d |-> d \div g]

R(i) == [n |-> i, d |-> 1]
RAdd(a, b) == Norm(a.n * b.d + b.n * a.d, a.d * b.d)
RSub(a, b) == Norm(a.n * b.d - b.n * a.d, a.d * b.d)
RMul(a, b) == Norm(a.n * b.n, a.d * b.d)
\* a / b for b # 0
RDiv(a, b) == IF b.n > 0 THEN Norm(a.n * b.d, a.d * b.n)
                         ELSE Norm(-(a.n * b.d), a.d * (-b.n))
RLe(a, b) == a.n * b.d <= b.n * a.d
RLt(a, b) == a.n * b.d < b.n * a.d
RMax(a, b) == IF RLe(a, b) THEN b ELSE a
RMin(a, b) == IF RLe(a, b) THEN a ELSE b
RFloor(a) == a.n \div a.d

RECURSIVE Pow10(_)
Pow10(k) == IF k = 0 THEN 1 ELSE 10 * Pow10(k - 1)

\* round(x, k): nearest multiple of 10^-k, ties to the even multiple
RoundTo(a, k) ==
    LET s == RMul(a, R(Pow10(k)))
        f == RFloor(s)
        r2 == 2 * (s.n - f * s.d)       \* twice the remainder, over s.d
        m == IF r2 < s.d THEN f
             ELSE IF r2 > s.d THEN f + 1
             ELSE IF f % 2 = 0 THEN f ELSE f + 1
    IN Norm(m, Pow10(k))

----------------------------------------------------------------------------
(* Cells, columns, series *)

Num(i) == [k |-> "num", n |-> i, d |-> 1]
NumR(a) == [k |-> "num", n |-> a.n, d |-> a.d]
NaN == [k |-> "nan", n |-> 0, d |-> 1]
Str == [k |-> "str", n |-> 0, d |-> 1]         \* text in a number column
Val(c) == [n |-> c.n, d |-> c.d]

Txt(s) == [k |-> "txt", s |-> s]               \* endpoint name
NoTxt == [k |-> "nan", s |-> ""]               \* missing endpoint

TStr(h) == [k |-> "tstr", h |-> h]             \* parseable timestamp text, hour h
TBad == [k |-> "str", h |-> 0]                 \* text that is not a date
TStamp(h) == [k |-> "ts", h |-> h]             \* datetime64 value, hour h

RequiredCols == {"Timestamp", "Endpoint", "Latency_ms", "Status"}

\* a DataFrame: its column labels and its rows, each row a record over them
Frame(columns, rows) ==
    [columns |-> columns,
     rows |-> [i \in 1..Len(rows) |-> [c \in columns |-> rows[i][c]]]]

Column(d, c) == [i \in 1..Len(d.rows) |-> d.rows[i][c]]

\* boolean indexing: the rows whose entry in the mask is TRUE, in order
RECURSIVE FilterRows(_, _)
FilterRows(rows, mask) ==
    IF rows = <<>> THEN <<>>
    ELSE (IF Head(mask) THEN <<Head(rows)>> ELSE <<>>)
            \o FilterRows(Tail(rows), Tail(mask))

\* insertion of x into the ascending sequence s
RECURSIVE Insert(_, _)
Insert(x, s) ==
    IF s = <<>> THEN <<x>>
    ELSE IF RLe(x, Head(s)) THEN <<x>> \o s
    ELSE <<Head(s)>> \o Insert(x, Tail(s))

RECURSIVE SortAsc(_)
SortAsc(s) == IF s = <<>> THEN <<>> ELSE Insert(Head(s), SortAsc(Tail(s)))

\* the numbers of a series, missing values skipped
RECURSIVE Numbers(_)
Numbers(col) ==
    IF col = <<>> THEN <<>>
    ELSE IF Head(col).k = "num" THEN <<Val(Head(col))>> \o Numbers(Tail(col))
    ELSE Numbers(Tail(col))

\* Series.quantile(pn/pd), linear interpolation between order statistics;
\* NaN for a series without numbers
Quantile(col, pn, pd) ==
    LET s == SortAsc(Numbers(col))
        m == Len(s)
    IN IF m = 0 THEN NaN
       ELSE LET pos == pn * (m - 1)
                lo == pos \div pd
                fr == pos % pd
            IN IF fr = 0 THEN NumR(s[lo + 1])
               ELSE NumR(RAdd(s[lo + 1],
                              RMul(Norm(fr, pd), RSub(s[lo + 2], s[lo + 1]))))

\* Series.clip(upper=u): NaN cells and a NaN bound leave the value alone
ClipUpper(c, u) ==
    IF c.k = "num" /\ u.k = "num" /\ RLt(Val(u), Val(c)) THEN u ELSE c

ClipLower(c, l) ==
    IF c.k = "num" /\ l.k = "num" /\ RLt(Val(c), Val(l)) THEN l ELSE c

\* is_numeric_dtype: a column read with any non-number text has dtype object
IsNumericDtype(col) == \A i \in 1..Len(col) : col[i].k # "str"

\* pd.to_datetime on one value; "raise" for text that is not a date
ToDatetime(c) ==
    IF c.k = "tstr" THEN TStamp(c.h)
    ELSE IF c.k = "str" THEN [k |-> "raise", h |-> 0]
    ELSE c

Parseable(col) == \A i \in 1..Len(col) : ToDatetime(col[i]).k # "raise"

----------------------------------------------------------------------------
(* validators.py *)

MIN_CLEAN_LATENCY == 10
STATUS_LOW == 100
STATUS_HIGH == 600

\* df.empty: no rows or no columns
IsEmpty(d) == Len(d.rows) = 0 \/ d.columns = {}

Fail(msg) == [called |-> TRUE, is_valid |-> FALSE, message |-> msg, count |-> 0]

\* validate_csv with the status-range check moved before the negative-latency check
validate_csv_status_first(d) ==
    IF IsEmpty(d) THEN Fail("Empty dataset provided")
    ELSE IF RequiredCols \ d.columns # {} THEN Fail("Missing columns")
    ELSE IF ~IsNumericDtype(Column(d, "Latency_ms"))
        THEN Fail("Latency_ms must be numeric")
    ELSE IF ~IsNumericDtype(Column(d, "Status"))
        THEN Fail("Status must be numeric")
    ELSE IF ~(\A i \in 1..Len(d.rows) :
                /\ d.rows[i].Status.k = "num"
                /\ d.rows[i].Status.d = 1
                /\ d.rows[i].Status.n \in STATUS_LOW..(STATUS_HIGH - 1))
        THEN Fail("Invalid HTTP status codes (must be 100-599)")
    ELSE IF \E i \in 1..Len(d.rows) :
                d.rows[i].Latency_ms.k = "num" /\ d.rows[i].Latency_ms.n < 0
        THEN Fail("Latency cannot be negative")
    ELSE IF \E i \in 1..Len(d.rows) : d.rows[i].Endpoint.k = "nan"
        THEN Fail("Missing endpoint names")
    ELSE IF ~Parseable(Column(d, "Timestamp"))
        THEN Fail("Invalid timestamp format")
    ELSE [called |-> TRUE, is_valid |-> TRUE, message |-> "Valid dataset",
          count |-> Len(d.rows)]

validate_csv(d) ==
    IF IsEmpty(d) THEN Fail("Empty dataset provided")
    ELSE IF RequiredCols \ d.columns # {} THEN Fail("Missing columns")
    ELSE IF ~IsNumericDtype(Column(d, "Latency_ms"))
        THEN Fail("Latency_ms must be numeric")
    ELSE IF ~IsNumericDtype(Column(d, "Status"))
        THEN Fail("Status must be numeric")
    ELSE IF \E i \in 1..Len(d.rows) :
                d.rows[i].Latency_ms.k = "num" /\ d.rows[i].Latency_ms.n < 0
        THEN Fail("Latency cannot be negative")
    ELSE IF ~(\A i \in 1..Len(d.rows) :
                /\ d.rows[i].Status.k = "num"
                /\ d.rows[i].Status.d = 1
                /\ d.rows[i].Status.n \in STATUS_LOW..(STATUS_HIGH - 1))
        THEN Fail("Invalid HTTP status codes (must be 100-599)")
    ELSE IF \E i \in 1..Len(d.rows) : d.rows[i].Endpoint.k = "nan"
        THEN Fail("Missing endpoint names")
    ELSE IF ~Parseable(Column(d, "Timestamp"))
        THEN Fail("Invalid timestamp format")
    ELSE [called |-> TRUE, is_valid |-> TRUE, message |-> "Valid dataset",
          count |-> Len(d.rows)]

NotNull(r) ==
    r.Latency_ms.k # "nan" /\ r.Status.k # "nan" /\ r.Endpoint.k # "nan"

\* clean_data raises (KeyError, ValueError, TypeError) unless this holds
CleanDefined(d) ==
    /\ RequiredCols \subseteq d.columns
    /\ IsNumericDtype(Column(d, "Latency_ms"))
    /\ Parseable(Column(d, "Timestamp"))

\* clean_data with the floor at 10 applied before the cap instead of after it
clean_data_floor_first(d, cap_outliers) ==
    LET kept == FilterRows(d.rows, [k \in 1..Len(d.rows) |-> NotNull(d.rows[k])])
        q99 == Quantile([i \in 1..Len(kept) |-> kept[i].Latency_ms], 99, 100)
        capped(c) == IF cap_outliers THEN ClipUpper(c, q99) ELSE c
    IN [columns |-> d.columns,
        rows |-> [i \in 1..Len(kept) |->
                    [kept[i] EXCEPT
                        !.Timestamp = ToDatetime(@),
                        !.Latency_ms =
                            capped(ClipLower(@, Num(MIN_CLEAN_LATENCY)))]]]

clean_data(d, cap_outliers) ==
    LET kept == FilterRows(d.rows, [k \in 1..Len(d.rows) |-> NotNull(d.rows[k])])
        q99 == Quantile([i \in 1..Len(kept) |-> kept[i].Latency_ms], 99, 100)
        capped(c) == IF cap_outliers THEN ClipUpper(c, q99) ELSE c
    IN [columns |-> d.columns,
        rows |-> [i \in 1..Len(kept) |->
                    [kept[i] EXCEPT
                        !.Timestamp = ToDatetime(@),
                        !.Latency_ms =
                            ClipLower(capped(@), Num(MIN_CLEAN_LATENCY))]]]

----------------------------------------------------------------------------
(* Harness for validate_csv: any small table, well formed or not *)

RECURSIVE SeqsUpTo(_, _)
SeqsUpTo(S, m) ==
    IF m = 0 THEN {<<>>}
    ELSE LET P == SeqsUpTo(S, m - 1)
         IN P \cup {Append(s, x) : s \in {t \in P : Len(t) = m - 1}, x \in S}

VLatency == {Num(120), Num(-5), NaN, Str}
VStatus == {Num(200), Num(600), Str}
VEndpoint == {Txt("/api/v1/search/query"), NoTxt}
VTimestamp == {TStr(0), TBad}
VColumns == {RequiredCols, RequiredCols \ {"Status"}, {}}

VRows == [Timestamp : VTimestamp, Endpoint : VEndpoint,
          Latency_ms : VLatency, Status : VStatus]

NoFrame == [columns |-> {}, rows |-> <<>>]

\* the run variables before "Run Scanner" is pressed
RunIdle ==
    /\ pc = "idle"
    /\ data_source = "Upload CSV"
    /\ heap = <<>>
    /\ raw_df = 0
    /\ processed_df = 0
    /\ detect_call = [arg |-> 0, before |-> NoFrame]
    /\ hourly_rate = 60
    /\ baseline_latency = NaN
    /\ anomalies_calc = NoFrame
    /\ total_wasted_hours = R(0)
    /\ financial_loss = R(0)
    /\ roi_data = <<>>
    /\ anomalies_severity = NoFrame
    /\ strategy = <<"", <<>> >>

NoCall == [fn |-> "none"]

NotCalled == [called |-> FALSE, is_valid |-> FALSE, message |-> "", count |-> 0]

InitValidate ==
    /\ df \in {Frame(c, rs) : c \in VColumns, rs \in SeqsUpTo(VRows, MaxRowsV)}
    /\ vres = NotCalled
    /\ out = <<>>
    /\ cap = TRUE
    /\ call = NoCall
    /\ RunIdle

ValidateCsv ==
    /\ ~vres.called
    /\ vres' = validate_csv(df)
    /\ UNCHANGED <<df, out, cap, call, runVars>>

NextValidate == ValidateCsv

SpecValidate == InitValidate /\ [][NextValidate]_vars

----------------------------------------------------------------------------
(* Harness for clean_data: validate, clean, clean the result again *)

CLatency == {Num(5), Num(100), Num(200), Num(-5), NaN}
CRows == [Timestamp : {TStr(0)}, Endpoint : {Txt("/api/v1/search/query")},
          Latency_ms : CLatency, Status : {Num(200)}]

InitClean ==
    /\ df \in {Frame(RequiredCols, rs) : rs \in SeqsUpTo(CRows, MaxRowsC)}
    /\ vres = NotCalled
    /\ out = <<>>
    /\ cap \in BOOLEAN
    /\ call = NoCall
    /\ RunIdle

\* first application, on a dataset that passed validation
CleanData ==
    /\ vres.called /\ vres.is_valid
    /\ out = <<>>
    /\ CleanDefined(df)
    /\ out' = <<clean_data(df, cap)>>
    /\ UNCHANGED <<df, vres, cap, call, runVars>>

\* second application, on the first one's output
CleanAgain ==
    /\ Len(out) = 1
    /\ CleanDefined(out[1])
    /\ out' = Append(out, clean_data(out[1], cap))
    /\ UNCHANGED <<df, vres, cap, call, runVars>>

NextClean == ValidateCsv \/ CleanData \/ CleanAgain

SpecClean == InitClean /\ [][NextClean]_vars

----------------------------------------------------------------------------
(* app.py: the functions main() calls *)

MS_PER_HOUR == 3600000

RECURSIVE SumR(_)
SumR(s) == IF s = <<>> THEN R(0) ELSE RAdd(Head(s), SumR(Tail(s)))

Latencies(rows) == [i \in 1..Len(rows) |-> Val(rows[i].Latency_ms)]

MeanLatency(rows) == RDiv(SumR(Latencies(rows)), R(Len(rows)))

IsAnomalous(r) == r.is_anomaly
IsNormal(r) == ~r.is_anomaly

\* IsolationForest.fit_predict raises on a missing column, on no samples and
\* on text values
FitRaises(d) ==
    \/ "Latency_ms" \notin d.columns
    \/ Len(d.rows) = 0
    \/ ~IsNumericDtype(Column(d, "Latency_ms"))

LatencyValues(d) == {d.rows[i].Latency_ms : i \in 1..Len(d.rows)}

\* detect_operational_anomalies(df, contamination) on the object h[ref].  The
\* fitted estimator is a function of the latency value, so its labelling is
\* the set A of latency values it scores as outliers; which set that is
\* belongs to the library and is left open.  The two columns are assigned on
\* the argument and the argument is returned.
detect_operational_anomalies(h, ref, A) ==
    LET d == h[ref]
        labelled(r) ==
            [c \in d.columns \cup {"anomaly_score", "is_anomaly"} |->
                IF c = "anomaly_score"
                    THEN (IF r.Latency_ms \in A THEN Num(-1) ELSE Num(1))
                ELSE IF c = "is_anomaly" THEN r.Latency_ms \in A
                ELSE r[c]]
    IN [heap |-> [h EXCEPT ![ref] =
                    [columns |-> d.columns \cup {"anomaly_score", "is_anomaly"},
                     rows |-> [i \in 1..Len(d.rows) |-> labelled(d.rows[i])]]],
        ret |-> ref]

\* main, lines 270-276
BaselineOf_MeanOfAll(processed) == NumR(MeanLatency(processed.rows))

BaselineOf(processed) ==
    LET normal == FilterRows(processed.rows,
                    [k \in 1..Len(processed.rows) |-> IsNormal(processed.rows[k])])
    IN IF normal = <<>>
       THEN Quantile(Column(processed, "Latency_ms"), 25, 100)
       ELSE NumR(MeanLatency(normal))

\* main, lines 279-280
WithWasted_NoClip(processed, baseline) ==
    LET anomalies == FilterRows(processed.rows,
                    [k \in 1..Len(processed.rows) |-> IsAnomalous(processed.rows[k])])
    IN [columns |-> processed.columns \cup {"Wasted_ms"},
        rows |-> [i \in 1..Len(anomalies) |->
                    [c \in processed.columns \cup {"Wasted_ms"} |->
                        IF c = "Wasted_ms"
                        THEN NumR(RSub(Val(anomalies[i].Latency_ms), Val(baseline)))
                        ELSE anomalies[i][c]]]]

WithWasted(processed, baseline) ==
    LET anomalies == FilterRows(processed.rows,
                    [k \in 1..Len(processed.rows) |-> IsAnomalous(processed.rows[k])])
    IN [columns |-> processed.columns \cup {"Wasted_ms"},
        rows |-> [i \in 1..Len(anomalies) |->
                    [c \in processed.columns \cup {"Wasted_ms"} |->
                        IF c = "Wasted_ms"
                        THEN ClipLower(
                                NumR(RSub(Val(anomalies[i].Latency_ms), Val(baseline))),
                                Num(0))
                        ELSE anomalies[i][c]]]]

\* main, lines 281-282
TotalWastedHours(calc) ==
    RDiv(SumR([i \in 1..Len(calc.rows) |-> Val(calc.rows[i].Wasted_ms)]),
         R(MS_PER_HOUR))

\* Series.unique(): the distinct values, the missing value included
Unique(col) == {col[i] : i \in 1..Len(col)}

\* rows selected by  anomalies['Endpoint'] == endpoint ; a missing value
\* equals nothing, itself included
EndpointRows(d, e) ==
    LET same(r) == r.Endpoint.k = "txt" /\ r.Endpoint = e
    IN FilterRows(d.rows, [k \in 1..Len(d.rows) |-> same(d.rows[k])])

\* app.py calculate_roi_potential
calculate_roi_potential_app(anomalies, baseline, rate) ==
    [e \in Unique(Column(anomalies, "Endpoint")) |->
        LET rows == EndpointRows(anomalies, e)
            wasted_ms == SumR([i \in 1..Len(rows) |->
                            RSub(Val(rows[i].Latency_ms), Val(baseline))])
            wasted_hours == RDiv(wasted_ms, R(MS_PER_HOUR))
            potential_savings == RMul(wasted_hours, R(rate))
        IN [wasted_hours |-> RoundTo(wasted_hours, 2),
            potential_savings |-> RoundTo(potential_savings, 2)]]

\* metrics.py calculate_roi_potential
calculate_roi_potential(anomalies, baseline, rate) ==
    [e \in Unique(Column(anomalies, "Endpoint")) |->
        LET rows == EndpointRows(anomalies, e)
            wasted_ms == SumR([i \in 1..Len(rows) |->
                            RSub(Val(rows[i].Latency_ms), Val(baseline))])
            wasted_hours == RDiv(wasted_ms, R(MS_PER_HOUR))
            potential_savings == RMul(wasted_hours, R(rate))
        IN [wasted_hours |-> RoundTo(wasted_hours, 2),
            potential_savings |-> RoundTo(potential_savings, 2),
            anomaly_count |-> Len(rows)]]

\* Series.clip(0, 100) then round(1) of a finite value
ClipRound(x) == NumR(RoundTo(RMin(RMax(x, R(0)), R(100)), 1))

\* severity of one latency, app.py: division by the baseline itself; a zero
\* baseline gives +inf, -inf or NaN, which clip to 100, 0 and NaN
SeverityApp_NoClip(lat, baseline) ==
    IF baseline.n = 0
    THEN (IF lat.n > 0 THEN Num(100) ELSE IF lat.n < 0 THEN Num(0) ELSE NaN)
    ELSE NumR(RoundTo(RMul(RDiv(RSub(lat, baseline), baseline), R(100)), 1))

SeverityApp(lat, baseline) ==
    IF baseline.n = 0
    THEN (IF lat.n > 0 THEN Num(100) ELSE IF lat.n < 0 THEN Num(0) ELSE NaN)
    ELSE ClipRound(RMul(RDiv(RSub(lat, baseline), baseline), R(100)))

\* severity of one latency, metrics.py: division by max(baseline, 1)
SeverityMetrics(lat, baseline) ==
    ClipRound(RMul(RDiv(RSub(lat, baseline), RMax(baseline, R(1))), R(100)))

\* app.py calculate_anomaly_severity
calculate_anomaly_severity_app(anomalies, baseline) ==
    [columns |-> anomalies.columns \cup {"Severity_Score"},
     rows |-> [i \in 1..Len(anomalies.rows) |->
                [c \in anomalies.columns \cup {"Severity_Score"} |->
                    IF c = "Severity_Score"
                    THEN SeverityApp(Val(anomalies.rows[i].Latency_ms), Val(baseline))
                    ELSE anomalies.rows[i][c]]]]

\* metrics.py calculate_anomaly_severity
calculate_anomaly_severity(anomalies, baseline) ==
    [columns |-> anomalies.columns \cup {"Severity_Score"},
     rows |-> [i \in 1..Len(anomalies.rows) |->
                [c \in anomalies.columns \cup {"Severity_Score"} |->
                    IF c = "Severity_Score"
                    THEN SeverityMetrics(Val(anomalies.rows[i].Latency_ms), Val(baseline))
                    ELSE anomalies.rows[i][c]]]]

----------------------------------------------------------------------------
(* metrics.py generate_health_score *)

\* generate_health_score without the floor of error_score at 0
generate_health_score_no_floor(error_rate, compliance_rate, trend_slope) ==
    LET error_score == RSub(R(100), RMul(error_rate, R(2)))
        compliance_score == compliance_rate
        trend_score ==
            RMax(R(0), RSub(R(100), RMul([n |-> Abs(trend_slope.n),
                                          d |-> trend_slope.d], Norm(1, 2))))
        overall_score ==
            RoundTo(RDiv(RAdd(RAdd(error_score, compliance_score), trend_score),
                         R(3)), 1)
    IN [health_score |-> overall_score,
        health_status |-> IF RLe(R(80), overall_score) THEN "Excellent"
                          ELSE IF RLe(R(60), overall_score) THEN "Good"
                          ELSE "Poor",
        error_score |-> RoundTo(error_score, 1),
        compliance_score |-> RoundTo(compliance_score, 1),
        trend_score |-> RoundTo(trend_score, 1)]

generate_health_score(error_rate, compliance_rate, trend_slope) ==
    LET error_score == RMax(R(0), RSub(R(100), RMul(error_rate, R(2))))
        compliance_score == compliance_rate
        trend_score ==
            RMax(R(0), RSub(R(100), RMul([n |-> Abs(trend_slope.n),
                                          d |-> trend_slope.d], Norm(1, 2))))
        overall_score ==
            RoundTo(RDiv(RAdd(RAdd(error_score, compliance_score), trend_score),
                         R(3)), 1)
    IN [health_score |-> overall_score,
        health_status |-> IF RLe(R(80), overall_score) THEN "Excellent"
                          ELSE IF RLe(R(60), overall_score) THEN "Good"
                          ELSE "Poor",
        error_score |-> RoundTo(error_score, 1),
        compliance_score |-> RoundTo(compliance_score, 1),
        trend_score |-> RoundTo(trend_score, 1)]

----------------------------------------------------------------------------
(* Harness for the metrics functions *)

MaxSevRows == 2         \* anomalous rows handed to calculate_anomaly_severity

SevLatencies == {Num(0), Num(1), Num(149), Num(150), Num(225), Num(300),
                 Num(301), Num(90000)}
SevBaselines == {Norm(1, 2), R(1), R(150), Norm(451, 3), R(0), R(-5)}

Hundredths(S) == {Norm(x, 100) : x \in S}
HealthRates == Hundredths({0, 3, 1000, 2500, 5000, 5003, 9994, 10000})
HealthSlopes == Hundredths({-100000, -510, 0, 7, 30, 4000, 20000})

SevFrames ==
    {[columns |-> {"Latency_ms"}, rows |-> rs] :
        rs \in SeqsUpTo([Latency_ms : SevLatencies], MaxSevRows)}

InitMetrics ==
    /\ call = NoCall
    /\ df = NoFrame
    /\ vres = NotCalled
    /\ out = <<>>
    /\ cap = TRUE
    /\ RunIdle

CallSeverityMetrics ==
    /\ call = NoCall
    /\ \E a \in SevFrames, b \in SevBaselines :
        call' = [fn |-> "metrics.calculate_anomaly_severity",
                 anomalies |-> a, baseline |-> b,
                 ret |-> calculate_anomaly_severity(a, NumR(b))]
    /\ UNCHANGED <<df, vres, out, cap, runVars>>

CallSeverityApp ==
    /\ call = NoCall
    /\ \E a \in SevFrames, b \in SevBaselines :
        call' = [fn |-> "app.calculate_anomaly_severity",
                 anomalies |-> a, baseline |-> b,
                 ret |-> calculate_anomaly_severity_app(a, NumR(b))]
    /\ UNCHANGED <<df, vres, out, cap, runVars>>

CallHealthScore ==
    /\ call = NoCall
    /\ \E er \in HealthRates, cr \in HealthRates, slope \in HealthSlopes :
        call' = [fn |-> "generate_health_score",
                 error_rate |-> er, compliance_rate |-> cr, trend_slope |-> slope,
                 ret |-> generate_health_score(er, cr, slope)]
    /\ UNCHANGED <<df, vres, out, cap, runVars>>

NextMetrics == CallSeverityMetrics \/ CallSeverityApp \/ CallHealthScore

SpecMetrics == InitMetrics /\ [][NextMetrics]_vars

----------------------------------------------------------------------------
(* metrics.py: percentiles, endpoint aggregates, latency trend *)

\* round(x, k) of a cell: a missing value stays missing
RoundCell(c, k) == IF c.k = "num" THEN NumR(RoundTo(Val(c), k)) ELSE c

\* calculate_percentiles with the 0.95 and 0.75 quantiles exchanged
calculate_percentiles_swapped(d, endpoint) ==
    LET rows == IF endpoint # ""
                THEN FilterRows(d.rows, [k \in 1..Len(d.rows) |->
                        d.rows[k].Endpoint.k = "txt" /\ d.rows[k].Endpoint.s = endpoint])
                ELSE d.rows
        data == [i \in 1..Len(rows) |-> rows[i].Latency_ms]
    IN [P50 |-> RoundCell(Quantile(data, 50, 100), 2),
        P75 |-> RoundCell(Quantile(data, 95, 100), 2),
        P95 |-> RoundCell(Quantile(data, 75, 100), 2),
        P99 |-> RoundCell(Quantile(data, 99, 100), 2)]

\* calculate_percentiles(df, endpoint); endpoint "" stands for None
calculate_percentiles(d, endpoint) ==
    LET rows == IF endpoint # ""
                THEN FilterRows(d.rows, [k \in 1..Len(d.rows) |->
                        d.rows[k].Endpoint.k = "txt" /\ d.rows[k].Endpoint.s = endpoint])
                ELSE d.rows
        data == [i \in 1..Len(rows) |-> rows[i].Latency_ms]
    IN [P50 |-> RoundCell(Quantile(data, 50, 100), 2),
        P75 |-> RoundCell(Quantile(data, 75, 100), 2),
        P95 |-> RoundCell(Quantile(data, 95, 100), 2),
        P99 |-> RoundCell(Quantile(data, 99, 100), 2)]

\* the group keys of groupby('Endpoint'): missing endpoints are dropped
GroupKeys(d) ==
    {d.rows[i].Endpoint.s : i \in {j \in 1..Len(d.rows) : d.rows[j].Endpoint.k = "txt"}}

GroupRows(d, e) ==
    FilterRows(d.rows, [k \in 1..Len(d.rows) |->
        d.rows[k].Endpoint.k = "txt" /\ d.rows[k].Endpoint.s = e])

RECURSIVE CountIf(_)
CountIf(mask) ==
    IF mask = <<>> THEN 0 ELSE (IF Head(mask) THEN 1 ELSE 0) + CountIf(Tail(mask))

\* mean of the numbers of a series, NaN when it has none
MeanCell(col) ==
    LET s == Numbers(col)
    IN IF s = <<>> THEN NaN ELSE NumR(RDiv(SumR(s), R(Len(s))))

\* Error_Count / Total_Requests * 100, rounded; division by zero gives
\* inf or NaN
ErrorRate(errors, total) ==
    IF total = 0 THEN (IF errors > 0 THEN [k |-> "inf", n |-> 0, d |-> 1] ELSE NaN)
    ELSE NumR(RoundTo(RMul(Norm(errors, total), R(100)), 2))

\* one row of the aggregate table; is_error is the Status predicate of the
\* version.  Std_Dev is left out: it is irrational and no property uses it.
AggregateRow(rows, is_error) ==
    LET lat == [i \in 1..Len(rows) |-> rows[i].Latency_ms]
        sorted == SortAsc(Numbers(lat))
        total == Len(sorted)                        \* 'count' skips NaN
        errors == CountIf(is_error)
    IN [Mean_Latency |-> RoundCell(MeanCell(lat), 2),
        Median_Latency |-> RoundCell(Quantile(lat, 50, 100), 2),
        Min_Latency |-> IF total = 0 THEN NaN ELSE RoundCell(NumR(sorted[1]), 2),
        Max_Latency |-> IF total = 0 THEN NaN ELSE RoundCell(NumR(sorted[total]), 2),
        Total_Requests |-> total,
        Error_Count |-> errors,
        Error_Rate |-> ErrorRate(errors, total)]

SERVER_ERROR == 500

\* metrics.py calculate_endpoint_metrics: Status >= 500
calculate_endpoint_metrics(d) ==
    [e \in GroupKeys(d) |->
        LET rows == GroupRows(d, e)
        IN AggregateRow(rows, [i \in 1..Len(rows) |->
                rows[i].Status.k = "num" /\ RLe(R(SERVER_ERROR), Val(rows[i].Status))])]

\* app.py calculate_endpoint_metrics: Status == 500
calculate_endpoint_metrics_app(d) ==
    [e \in GroupKeys(d) |->
        LET rows == GroupRows(d, e)
        IN AggregateRow(rows, [i \in 1..Len(rows) |->
                rows[i].Status.k = "num" /\ Val(rows[i].Status) = R(SERVER_ERROR)])]

\* ascending sequence of a finite set of integers
RECURSIVE SortedInts(_)
SortedInts(S) ==
    IF S = {} THEN <<>>
    ELSE LET m == CHOOSE x \in S : \A y \in S : x <= y
         IN <<m>> \o SortedInts(S \ {m})

\* np.polyfit(x, y, 1)[0]: least-squares slope, x integers, y rationals
LeastSquaresSlope(x, y) ==
    LET m == Len(x)
        sx == SumR([i \in 1..m |-> R(x[i])])
        sy == SumR(y)
        sxy == SumR([i \in 1..m |-> RMul(R(x[i]), y[i])])
        sxx == SumR([i \in 1..m |-> R(x[i] * x[i])])
    IN RDiv(RSub(RMul(R(m), sxy), RMul(sx, sy)),
            RSub(RMul(R(m), sxx), RMul(sx, sx)))

TREND_LIMIT == 5

\* the hour buckets of dt.floor('H') that groupby keeps
HourBuckets(d) ==
    {d.rows[i].Timestamp.h : i \in {j \in 1..Len(d.rows) : d.rows[j].Timestamp.k = "ts"}}

HourlyMean(d, h) ==
    LET rows == FilterRows(d.rows, [k \in 1..Len(d.rows) |->
                    d.rows[k].Timestamp.k = "ts" /\ d.rows[k].Timestamp.h = h])
    IN Val(MeanCell([i \in 1..Len(rows) |-> rows[i].Latency_ms]))

TrendOf(slope) ==
    IF RLt(R(TREND_LIMIT), slope) THEN "Degrading"
    ELSE IF RLt(slope, R(-TREND_LIMIT)) THEN "Improving"
    ELSE "Stable"

\* metrics.py calculate_latency_trends: the line is fitted against
\* x = arange(number of buckets), the position of the bucket, not its hour.
\* The trend labels are written without their trailing arrow glyphs.
calculate_latency_trends(d) ==
    IF Len(d.rows) < 2 THEN [trend |-> "Insufficient data", slope |-> R(0)]
    ELSE LET hours == SortedInts(HourBuckets(d))
             y == [i \in 1..Len(hours) |-> HourlyMean(d, hours[i])]
             x == [i \in 1..Len(hours) |-> i - 1]
         IN IF Len(hours) < 2
            THEN [trend |-> "Insufficient data", slope |-> R(0)]
            ELSE LET slope == LeastSquaresSlope(x, y)
                 IN [trend |-> TrendOf(slope),
                     slope |-> RoundTo(slope, 2),
                     direction |-> IF slope.n > 0 THEN "worse" ELSE "better"]

----------------------------------------------------------------------------
(* Harness for percentiles, endpoint aggregates and trend *)

MaxMetricRows == 3      \* rows of a dataset handed to these functions

MEndpoints == {"/api/v1/search/query", "/api/v1/auth/login"}

PctRows == [Endpoint : {Txt(e) : e \in MEndpoints},
            Latency_ms : {Num(10), Num(120), Num(1500)}]
PctFrames ==
    {[columns |-> {"Endpoint", "Latency_ms"}, rows |-> rs] :
        rs \in SeqsUpTo(PctRows, MaxMetricRows)}
PctEndpointArgs == {""} \cup MEndpoints

AggRows == [Endpoint : {Txt(e) : e \in MEndpoints},
            Latency_ms : {Num(10), Num(125), NaN},
            Status : {Num(200), Num(500), Num(503)}]
AggFrames ==
    {[columns |-> {"Endpoint", "Latency_ms", "Status"}, rows |-> rs] :
        rs \in SeqsUpTo(AggRows, MaxMetricRows)}

TrendRows == [Timestamp : {TStamp(0), TStamp(1), TStamp(3)},
              Latency_ms : {Num(100), Num(104), Num(112)}]
TrendFrames ==
    {[columns |-> {"Timestamp", "Latency_ms"}, rows |-> rs] :
        rs \in SeqsUpTo(TrendRows, MaxMetricRows)}

InitAnalytics ==
    /\ call = NoCall
    /\ df = NoFrame
    /\ vres = NotCalled
    /\ out = <<>>
    /\ cap = TRUE
    /\ RunIdle

CallPercentiles ==
    /\ call = NoCall
    /\ \E d \in PctFrames, e \in PctEndpointArgs :
        call' = [fn |-> "calculate_percentiles", data |-> d, endpoint |-> e,
                 ret |-> calculate_percentiles(d, e)]
    /\ UNCHANGED <<df, vres, out, cap, runVars>>

CallEndpointMetrics ==
    /\ call = NoCall
    /\ \E d \in AggFrames :
        call' = [fn |-> "metrics.calculate_endpoint_metrics", data |-> d,
                 ret |-> calculate_endpoint_metrics(d)]
    /\ UNCHANGED <<df, vres, out, cap, runVars>>

CallEndpointMetricsApp ==
    /\ call = NoCall
    /\ \E d \in AggFrames :
        call' = [fn |-> "app.calculate_endpoint_metrics", data |-> d,
                 ret |-> calculate_endpoint_metrics_app(d)]
    /\ UNCHANGED <<df, vres, out, cap, runVars>>

CallLatencyTrends ==
    /\ call = NoCall
    /\ \E d \in TrendFrames :
        call' = [fn |-> "calculate_latency_trends", data |-> d,
                 ret |-> calculate_latency_trends(d)]
    /\ UNCHANGED <<df, vres, out, cap, runVars>>

NextAnalytics ==
    \/ CallPercentiles
    \/ CallEndpointMetrics
    \/ CallEndpointMetricsApp
    \/ CallLatencyTrends

SpecAnalytics == InitAnalytics /\ [][NextAnalytics]_vars

----------------------------------------------------------------------------
(* Python str operations used by the strategy code *)

UPPERCASE == "ABCDEFGHIJKLMNOPQRSTUVWXYZ"
LOWERCASE == "abcdefghijklmnopqrstuvwxyz"

CharAt(s, i) == SubSeq(s, i, i)

\* position of a one-character string in another string, 0 when absent
IndexOf(c, s) ==
    IF \E i \in 1..Len(s) : CharAt(s, i) = c
    THEN CHOOSE i \in 1..Len(s) :
            CharAt(s, i) = c /\ \A j \in 1..(i - 1) : CharAt(s, j) # c
    ELSE 0

\* str.lower()
RECURSIVE Lower(_)
Lower(s) ==
    IF s = "" THEN ""
    ELSE LET c == CharAt(s, 1)
             u == IndexOf(c, UPPERCASE)
         IN (IF u = 0 THEN c ELSE CharAt(LOWERCASE, u)) \o Lower(Tail(s))

\* keyword in s
Contains(keyword, s) ==
    \E i \in 1..(Len(s) - Len(keyword) + 1) :
        SubSeq(s, i, i + Len(keyword) - 1) = keyword

\* str.split(sep) for a one-character separator
RECURSIVE Split(_, _)
Split(s, sep) ==
    LET i == IndexOf(sep, s)
    IN IF i = 0 THEN <<s>>
       ELSE <<SubSeq(s, 1, i - 1)>> \o Split(SubSeq(s, i + 1, Len(s)), sep)

\* the characters of the modelled endpoints in code-point order
CODEPOINTS == "/0123456789ABCDEFGHIJKLMNOPQRSTUVWXYZ_abcdefghijklmnopqrstuvwxyz"

\* a < b on str
RECURSIVE StrLess(_, _)
StrLess(a, b) ==
    IF b = "" THEN FALSE
    ELSE IF a = "" THEN TRUE
    ELSE LET ra == IndexOf(CharAt(a, 1), CODEPOINTS)
             rb == IndexOf(CharAt(b, 1), CODEPOINTS)
         IN IF ra # rb THEN ra < rb ELSE StrLess(Tail(a), Tail(b))

----------------------------------------------------------------------------
(* strategies.py.  The texts are written without their emoji glyphs and with
   ' for the backquote. *)

STRATEGY_PATTERNS ==
    << [pattern |-> "search|query",
        immediate |-> "Implement Redis/Memcached layer for query results caching",
        root_cause |-> "ElasticSearch indices unoptimized, missing shards, or network latency",
        long_term |-> "Migrate to event-driven CQRS pattern with projection layer"],
       [pattern |-> "report|export",
        immediate |-> "Move to async job queue (Celery/Bull/RQ) to unblock HTTP threads",
        root_cause |-> "Large dataset aggregation blocking request, slow aggregation pipeline",
        long_term |-> "Implement materialized views or data warehouse with hourly refreshes"],
       [pattern |-> "transaction|payment|checkout",
        immediate |-> "Add timeout handling and implement retry logic with exponential backoff",
        root_cause |-> "External payment processor delays, network issues, or unoptimized database queries",
        long_term |-> "Isolate transaction processing into dedicated microservice with circuit breakers"],
       [pattern |-> "auth|login|oauth|jwt",
        immediate |-> "Implement token caching with short TTL (Redis)",
        root_cause |-> "Identity provider latency or excessive permission checks (N+1 queries)",
        long_term |-> "Adopt passwordless authentication (WebAuthn) or federation"],
       [pattern |-> "upload|file|media",
        immediate |-> "Stream uploads directly to S3/Cloud Storage; validate client-side",
        root_cause |-> "Processing files before persisting to storage, or single-threaded uploads",
        long_term |-> "Implement chunked multi-part uploads with resumable progress tracking"],
       [pattern |-> "profile|user|account",
        immediate |-> "Cache user profiles in distributed cache (Redis) with 5-min TTL",
        root_cause |-> "Repeated database lookups for profile data, unindexed queries",
        long_term |-> "Implement event-sourced user projections with eventual consistency"],
       [pattern |-> "notification|email|sms",
        immediate |-> "Move to message queue (RabbitMQ/Kafka) for async processing",
        root_cause |-> "Blocking HTTP waits for notification delivery",
        long_term |-> "Implement event-driven notification system with retry queues"],
       [pattern |-> "database|sql",
        immediate |-> "Add query result caching and implement connection pooling",
        root_cause |-> "Missing database indexes, connection pool exhaustion, or slow queries",
        long_term |-> "Shard database, implement read replicas, or migrate to NoSQL where appropriate"] >>

\* the plan built from one entry of STRATEGY_PATTERNS
PatternPlan(strategies) ==
    << "**Immediate Mitigation:** " \o strategies.immediate,
       "**Root Cause Analysis:** " \o strategies.root_cause,
       "**Long Term Strategy:** " \o strategies.long_term >>

\* the default plan
FallbackPlan(worst_endpoint) ==
    << "**Immediate Mitigation:** Review application logs for '" \o worst_endpoint
            \o "' during high-latency windows. Add detailed APM instrumentation.",
       "**Root Cause Analysis:** Check CPU/memory saturation on host nodes. Verify connection pool exhaustion (increase max_pool_size or implement PgBouncer).",
       "**Long Term Strategy:** Profile '" \o worst_endpoint
            \o "' with flame graphs. Consider horizontal scaling or request queuing." >>

\* any(keyword in text for keyword in pattern.split('|'))
PatternMatches(pattern, text) ==
    LET keywords == Split(pattern, "|")
    IN \E k \in 1..Len(keywords) : Contains(keywords[k], text)

\* get_strategy_for_endpoint without the lower() normalisation
get_strategy_for_endpoint_case_sensitive(worst_endpoint) ==
    LET endpoint_lower == worst_endpoint
        matching == {i \in 1..Len(STRATEGY_PATTERNS) :
                        PatternMatches(STRATEGY_PATTERNS[i].pattern, endpoint_lower)}
    IN IF matching # {}
       THEN LET first == CHOOSE i \in matching : \A j \in matching : i <= j
            IN <<worst_endpoint, PatternPlan(STRATEGY_PATTERNS[first])>>
       ELSE <<worst_endpoint, FallbackPlan(worst_endpoint)>>

\* get_strategy_for_endpoint: the loop returns at the first matching entry
get_strategy_for_endpoint(worst_endpoint) ==
    LET endpoint_lower == Lower(worst_endpoint)
        matching == {i \in 1..Len(STRATEGY_PATTERNS) :
                        PatternMatches(STRATEGY_PATTERNS[i].pattern, endpoint_lower)}
    IN IF matching # {}
       THEN LET first == CHOOSE i \in matching : \A j \in matching : i <= j
            IN <<worst_endpoint, PatternPlan(STRATEGY_PATTERNS[first])>>
       ELSE <<worst_endpoint, FallbackPlan(worst_endpoint)>>

HIGH_PRIORITY_COUNT == 100
CRITICAL_COUNT == 500
ROI_ALERT_LOSS == 500

HighPriorityWin ==
    "**High Priority**: Implement basic caching layer (Redis) - Quick win with 40-60% latency reduction"
\* f"${financial_loss:.0f} ...": the loss rounded half-even to an integer
RoiAlertWin(loss) ==
    "**ROI Alert**: $" \o ToString(RoundTo(loss, 0).n)
        \o " cost/day - Justifies hiring/outsourcing for optimization"
CriticalWin ==
    "**Critical**: Consider load balancing, horizontal scaling, or circuit breaker patterns"
GenericWins ==
    << "**Easy Win**: Add request-level caching (HTTP headers, ETag) for GET endpoints",
       "**Quick Fix**: Implement database query result caching (short TTL)",
       "**Infrastructure**: Verify connection pools are sized correctly for your workload" >>

\* get_quick_wins with the generic suggestions appended first
get_quick_wins_generic_first(anomalies_count, loss) ==
    GenericWins
    \o (IF anomalies_count > HIGH_PRIORITY_COUNT THEN <<HighPriorityWin>> ELSE <<>>)
    \o (IF RLt(R(ROI_ALERT_LOSS), loss)
        THEN <<RoiAlertWin(loss)>> ELSE <<>>)
    \o (IF anomalies_count > CRITICAL_COUNT THEN <<CriticalWin>> ELSE <<>>)

\* get_quick_wins: the appends in program order
get_quick_wins(anomalies_count, loss) ==
    (IF anomalies_count > HIGH_PRIORITY_COUNT THEN <<HighPriorityWin>> ELSE <<>>)
    \o (IF RLt(R(ROI_ALERT_LOSS), loss)
        THEN <<RoiAlertWin(loss)>> ELSE <<>>)
    \o (IF anomalies_count > CRITICAL_COUNT THEN <<CriticalWin>> ELSE <<>>)
    \o GenericWins

SLA_TEMPLATES ==
    [aggressive |-> [p50 |-> 100, p95 |-> 250, p99 |-> 500,
        description |-> "High-performance, low-latency systems (e.g., real-time trading, live gaming)"],
     standard |-> [p50 |-> 200, p95 |-> 500, p99 |-> 1000,
        description |-> "Typical web applications and APIs"],
     relaxed |-> [p50 |-> 500, p95 |-> 2000, p99 |-> 5000,
        description |-> "Background jobs, batch processing, non-critical systems"]]

\* dict.get(key, default)
DictGet(dict, key, default) ==
    IF key \in DOMAIN dict THEN dict[key] ELSE default

\* Python's value <= threshold: False for NaN
Compliant(value, threshold) ==
    value.k = "num" /\ RLe(Val(value), R(threshold))

\* evaluate_against_sla falling back to the relaxed template
evaluate_against_sla_relaxed_default(percentiles, sla_level) ==
    LET sla == DictGet(SLA_TEMPLATES, sla_level, SLA_TEMPLATES["relaxed"])
        p50_compliant == Compliant(DictGet(percentiles, "P50", Num(0)), sla.p50)
        p95_compliant == Compliant(DictGet(percentiles, "P95", Num(0)), sla.p95)
        p99_compliant == Compliant(DictGet(percentiles, "P99", Num(0)), sla.p99)
    IN [p50_compliant |-> p50_compliant,
        p95_compliant |-> p95_compliant,
        p99_compliant |-> p99_compliant,
        sla_level |-> sla_level,
        sla_description |-> sla.description,
        all_compliant |-> p50_compliant /\ p95_compliant /\ p99_compliant]

\* evaluate_against_sla
evaluate_against_sla(percentiles, sla_level) ==
    LET sla == DictGet(SLA_TEMPLATES, sla_level, SLA_TEMPLATES["standard"])
        p50_compliant == Compliant(DictGet(percentiles, "P50", Num(0)), sla.p50)
        p95_compliant == Compliant(DictGet(percentiles, "P95", Num(0)), sla.p95)
        p99_compliant == Compliant(DictGet(percentiles, "P99", Num(0)), sla.p99)
    IN [p50_compliant |-> p50_compliant,
        p95_compliant |-> p95_compliant,
        p99_compliant |-> p99_compliant,
        sla_level |-> sla_level,
        sla_description |-> sla.description,
        all_compliant |-> p50_compliant /\ p95_compliant /\ p99_compliant]

----------------------------------------------------------------------------
(* app.py: run_executive_agent_analysis *)

NO_DEBT == "No significant debt detected. Systems operational."

\* groupby('Endpoint')['Latency_ms'].sum() of one endpoint
LatencySum(d, e) ==
    LET rows == GroupRows(d, e)
    IN SumR(Numbers([i \in 1..Len(rows) |-> rows[i].Latency_ms]))

\* idxmax of the per-endpoint sums: the groups are in ascending key order
\* and the first maximum is returned
WorstEndpoint(d) ==
    LET top == {e \in GroupKeys(d) :
                    \A f \in GroupKeys(d) : RLe(LatencySum(d, f), LatencySum(d, e))}
    IN CHOOSE e \in top : \A f \in top \ {e} : StrLess(e, f)

SearchPlan(worst_endpoint) ==
    << "**Immediate Mitigation:** Implement **Redis Caching** layer for '" \o worst_endpoint
            \o "' to serve frequent queries from memory.",
       "**Root Cause Analysis:** ElasticSearch indices likely unoptimized or mapping explosion occurring.",
       "**Long Term:** Shift to an event-driven projection pattern (CQRS) for read-heavy search loads." >>

ReportPlan(worst_endpoint) ==
    << "**Immediate Mitigation:** Move '" \o worst_endpoint
            \o "' to an **Async Job Queue** (Celery/BullMQ). Do not block HTTP threads.",
       "**Database Optimization:** Analyze 'EXPLAIN ANALYZE' for missing composite indexes on report filters.",
       "**Long Term:** Implement Materialized Views (BigQuery/Postgres) refreshed hourly." >>

TransactionsPlan(worst_endpoint) ==
    << "**Immediate Mitigation:** Scale horizontal pods for '" \o worst_endpoint
            \o "' and audit external API dependency timeouts.",
       "**Code Review:** Check for N+1 query problems in the transaction ORM layer.",
       "**Architecture:** Isolate transaction processing into a dedicated microservice with circuit breakers." >>

DefaultPlan(worst_endpoint) ==
    << "**Immediate Mitigation:** Review application logs for '" \o worst_endpoint
            \o "' during high-latency windows.",
       "**Infrastructure:** Check CPU steal/Memory saturation on host nodes.",
       "**Pattern:** Likely connection pool exhaustion. Increase max_pool_size or implement connection multiplexing (PgBouncer)." >>

\* the if/elif chain on the endpoint as written, without lower()
AgentPlan(worst_endpoint) ==
    IF Contains("search", worst_endpoint) THEN SearchPlan(worst_endpoint)
    ELSE IF Contains("report", worst_endpoint) THEN ReportPlan(worst_endpoint)
    ELSE IF Contains("transactions", worst_endpoint) THEN TransactionsPlan(worst_endpoint)
    ELSE DefaultPlan(worst_endpoint)

\* run_executive_agent_analysis answering an empty frame with the default
\* plan instead of an empty step list
run_executive_agent_analysis_no_sentinel(df_anomalies) ==
    IF df_anomalies.rows = <<>>
    THEN <<NO_DEBT, DefaultPlan(NO_DEBT)>>
    ELSE LET worst_endpoint == WorstEndpoint(df_anomalies)
         IN <<worst_endpoint, AgentPlan(worst_endpoint)>>

\* run_executive_agent_analysis, for a frame that has an endpoint (idxmax
\* raises otherwise)
run_executive_agent_analysis(df_anomalies) ==
    IF df_anomalies.rows = <<>>
    THEN <<NO_DEBT, <<>> >>
    ELSE LET worst_endpoint == WorstEndpoint(df_anomalies)
         IN <<worst_endpoint, AgentPlan(worst_endpoint)>>

----------------------------------------------------------------------------
(* Harness for the strategy functions *)

MaxAgentRows == 3       \* anomalous records handed to the executive agent

SEndpoints ==
    {"/api/v1/search/query", "/API/V1/Search/Query", "/api/v1/search/export",
     "/api/v1/reports/export", "/api/v1/REPORTS/generate",
     "/api/v1/transactions/create", "/api/v1/payment/checkout",
     "/api/v1/auth/login", "/Api/V1/Auth/Login", "/api/v1/upload/file",
     "/api/v1/users/profile", "/api/v1/user/search",
     "/api/v1/notifications/email", "/api/v1/sql/console",
     "/api/v1/health", ""}

WinCounts == {0, 100, 101, 500, 501}
WinLosses == {R(0), R(500), Norm(1001, 2), R(501), Norm(2469, 2)}

SlaLevels == {"aggressive", "standard", "relaxed", "premium", ""}
SlaValues(t) == {Num(t - 100), Num(t), NumR(Norm(100 * t + 1, 100)), NaN}
SlaInputs ==
    UNION {
        {[k \in K |-> IF k = "P50" THEN a ELSE IF k = "P95" THEN b
                       ELSE IF k = "P99" THEN c ELSE a] :
            a \in SlaValues(200), b \in SlaValues(500), c \in SlaValues(1000)} :
        K \in {{"P50", "P75", "P95", "P99"}, {"P50", "P95"}, {"P95", "P99"}, {}} }

AgentEndpoints ==
    {"/api/v1/search/query", "/API/V1/Search/Query", "/api/v1/auth/login",
     "/api/v1/users/profile", "/api/v1/payment/checkout", "/api/v1/data/export",
     "/api/v1/reports/generate", "/api/v1/transactions/create"}
AGENT_BASELINE == 150
AgentRows ==
    {[Endpoint |-> Txt(e), Latency_ms |-> Num(l), is_anomaly |-> TRUE,
      Wasted_ms |-> NumR(RMax(R(0), RSub(R(l), R(AGENT_BASELINE))))] :
        e \in AgentEndpoints, l \in {200, 300}}
AgentFrames ==
    {[columns |-> {"Endpoint", "Latency_ms", "is_anomaly", "Wasted_ms"},
      rows |-> rs] : rs \in SeqsUpTo(AgentRows, MaxAgentRows)}

InitStrategy ==
    /\ call = NoCall
    /\ df = NoFrame
    /\ vres = NotCalled
    /\ out = <<>>
    /\ cap = TRUE
    /\ RunIdle

CallGetStrategy ==
    /\ call = NoCall
    /\ \E e \in SEndpoints :
        call' = [fn |-> "get_strategy_for_endpoint", worst_endpoint |-> e,
                 ret |-> get_strategy_for_endpoint(e)]
    /\ UNCHANGED <<df, vres, out, cap, runVars>>

CallQuickWins ==
    /\ call = NoCall
    /\ \E n \in WinCounts, loss \in WinLosses :
        call' = [fn |-> "get_quick_wins", anomalies_count |-> n,
                 financial_loss |-> loss, ret |-> get_quick_wins(n, loss)]
    /\ UNCHANGED <<df, vres, out, cap, runVars>>

CallEvaluateSla ==
    /\ call = NoCall
    /\ \E p \in SlaInputs, level \in SlaLevels :
        call' = [fn |-> "evaluate_against_sla", percentiles |-> p,
                 sla_level |-> level, ret |-> evaluate_against_sla(p, level)]
    /\ UNCHANGED <<df, vres, out, cap, runVars>>

CallExecutiveAgent ==
    /\ call = NoCall
    /\ \E d \in AgentFrames :
        call' = [fn |-> "run_executive_agent_analysis", data |-> d,
                 ret |-> run_executive_agent_analysis(d)]
    /\ UNCHANGED <<df, vres, out, cap, runVars>>

NextStrategy ==
    \/ CallGetStrategy
    \/ CallQuickWins
    \/ CallEvaluateSla
    \/ CallExecutiveAgent

SpecStrategy == InitStrategy /\ [][NextStrategy]_vars

----------------------------------------------------------------------------
(* app.py main(): one analysis run *)

PLatency == {Num(-5), Num(10), Num(90000)}
PEndpoint == {Txt("/api/v1/search/query"), Txt("/api/v1/reports/generate")}

\* rows of an uploaded file: well formed ones and four malformed ones
UploadRows ==
    [Timestamp : {TStr(0)}, Endpoint : PEndpoint,
     Latency_ms : PLatency, Status : {Num(200)}]
    \cup {[Timestamp |-> TStr(0), Endpoint |-> Txt("/api/v1/search/query"),
           Latency_ms |-> Str, Status |-> Num(200)],
          [Timestamp |-> TBad, Endpoint |-> Txt("/api/v1/search/query"),
           Latency_ms |-> Num(10), Status |-> Num(200)],
          [Timestamp |-> TStr(0), Endpoint |-> NoTxt,
           Latency_ms |-> Num(90000), Status |-> Num(200)],
          [Timestamp |-> TStr(0), Endpoint |-> Txt("/api/v1/search/query"),
           Latency_ms |-> Num(10), Status |-> Num(503)]}

\* files that lack one of the columns main() reads
ShortColumns == {RequiredCols \ {c} : c \in RequiredCols}

UploadedFiles ==
    {Frame(RequiredCols, rs) : rs \in SeqsUpTo(UploadRows, MaxRows)}
    \cup {Frame(c, <<r>>) : c \in ShortColumns, r \in UploadRows}

\* generate_system_logs: latency at least 10, status 200 or 500, a True_Label
SyntheticRows ==
    [Timestamp : {TStamp(0)}, Endpoint : PEndpoint,
     Latency_ms : {Num(10), Num(90000)}, Status : {Num(200), Num(500)},
     True_Label : {Txt("Healthy")}]

HourlyRates == {10, 60}

InitRun ==
    /\ RunIdle
    /\ df = NoFrame
    /\ vres = NotCalled
    /\ out = <<>>
    /\ cap = TRUE
    /\ call = NoCall

\* sidebar: "Run Scanner" pressed with a data source and an hourly rate
RunScanner ==
    /\ pc = "idle"
    /\ pc' = "start"
    /\ data_source' \in {"Generate Synthetic", "Upload CSV"}
    /\ hourly_rate' \in HourlyRates
    /\ UNCHANGED <<heap, raw_df, processed_df, detect_call, baseline_latency,
                   anomalies_calc, total_wasted_hours, financial_loss,
                   roi_data, anomalies_severity, strategy,
                   harnessVars>>

\* main, line 257
GenerateSynthetic ==
    /\ pc = "start" /\ data_source = "Generate Synthetic"
    /\ \E rs \in SeqsUpTo(SyntheticRows, MaxRows) :
            /\ Len(rs) > 0
            /\ heap' = <<Frame(RequiredCols \cup {"True_Label"}, rs)>>
    /\ raw_df' = 1
    /\ pc' = "loaded"
    /\ UNCHANGED <<data_source, processed_df, detect_call, hourly_rate,
                   baseline_latency, anomalies_calc, total_wasted_hours,
                   financial_loss, roi_data, anomalies_severity, strategy,
                   harnessVars>>

\* main, lines 259-264: no file chosen
NoFile ==
    /\ pc = "start" /\ data_source = "Upload CSV"
    /\ pc' = "no_file"
    /\ UNCHANGED <<data_source, heap, raw_df, processed_df, detect_call,
                   hourly_rate, baseline_latency, anomalies_calc,
                   total_wasted_hours, financial_loss, roi_data,
                   anomalies_severity, strategy,
                   harnessVars>>

\* main, lines 260-261: read_csv, then the Timestamp column is converted
\* (KeyError without the column, ValueError on text that is not a date)
Upload ==
    /\ pc = "start" /\ data_source = "Upload CSV"
    /\ \E file \in UploadedFiles :
        IF "Timestamp" \notin file.columns \/ ~Parseable(Column(file, "Timestamp"))
        THEN /\ heap' = <<file>>
             /\ pc' = "raised"
        ELSE /\ heap' = <<[file EXCEPT !.rows =
                            [i \in 1..Len(file.rows) |->
                                [file.rows[i] EXCEPT !.Timestamp = ToDatetime(@)]]]>>
             /\ pc' = "loaded"
    /\ raw_df' = 1
    /\ UNCHANGED <<data_source, processed_df, detect_call, hourly_rate,
                   baseline_latency, anomalies_calc, total_wasted_hours,
                   financial_loss, roi_data, anomalies_severity, strategy,
                   harnessVars>>

\* main, line 267: detect_operational_anomalies(raw_df.copy(), contamination)
Detect ==
    /\ pc = "loaded"
    /\ LET copied == Append(heap, heap[raw_df])
           arg == Len(copied)
       IN /\ detect_call' = [arg |-> arg, before |-> copied[arg]]
          /\ IF FitRaises(copied[arg])
             THEN /\ heap' = copied
                  /\ processed_df' = 0
                  /\ pc' = "raised"
             ELSE \E A \in SUBSET LatencyValues(copied[arg]) :
                    LET res == detect_operational_anomalies(copied, arg, A)
                    IN /\ heap' = res.heap
                       /\ processed_df' = res.ret
                       /\ pc' = "detected"
    /\ UNCHANGED <<data_source, raw_df, hourly_rate, baseline_latency,
                   anomalies_calc, total_wasted_hours, financial_loss,
                   roi_data, anomalies_severity, strategy,
                   harnessVars>>

\* main, lines 270-283
CalculateImpact ==
    /\ pc = "detected"
    /\ LET processed == heap[processed_df]
           baseline == BaselineOf(processed)
           calc == WithWasted(processed, baseline)
       IN /\ baseline_latency' = baseline
          /\ anomalies_calc' = calc
          /\ total_wasted_hours' = TotalWastedHours(calc)
          /\ financial_loss' = RMul(TotalWastedHours(calc), R(hourly_rate))
    /\ pc' = "impact"
    /\ UNCHANGED <<data_source, heap, raw_df, processed_df, detect_call,
                   hourly_rate, roi_data, anomalies_severity, strategy,
                   harnessVars>>

\* the dashboard part of main raises a KeyError when the Status or Endpoint
\* column is absent (lines 301, 324), and idxmax raises when no anomalous row
\* has an endpoint (line 132)
DashboardRaises ==
    \/ "Status" \notin heap[processed_df].columns
    \/ "Endpoint" \notin heap[processed_df].columns
    \/ /\ anomalies_calc.rows # <<>>
       /\ \A i \in 1..Len(anomalies_calc.rows) :
            anomalies_calc.rows[i].Endpoint.k = "nan"

\* main, lines 285-415: the values the dashboard shows
Report ==
    /\ pc = "impact"
    /\ IF DashboardRaises
       THEN /\ pc' = "raised"
            /\ UNCHANGED <<roi_data, anomalies_severity, strategy>>
       ELSE /\ strategy' = run_executive_agent_analysis(anomalies_calc)
            /\ roi_data' = calculate_roi_potential_app(anomalies_calc,
                                baseline_latency, hourly_rate)
            /\ anomalies_severity' =
                    calculate_anomaly_severity_app(anomalies_calc, baseline_latency)
            /\ pc' = "reported"
    /\ UNCHANGED <<data_source, heap, raw_df, processed_df, detect_call,
                   hourly_rate, baseline_latency, anomalies_calc,
                   total_wasted_hours, financial_loss, harnessVars>>

Init == InitRun

Next ==
    \/ RunScanner
    \/ GenerateSynthetic
    \/ NoFile
    \/ Upload
    \/ Detect
    \/ CalculateImpact
    \/ Report

Spec == Init /\ [][Next]_vars

----------------------------------------------------------------------------
(* Claims about validate_csv and clean_data *)

\* the checks of validate_csv, in the documented order, as properties of the
\* table alone; a check on a column is violated only where the column exists
Has(d, c) == c \in d.columns

ViolatedChecks(d) ==
    {i \in 1..8 :
        \/ i = 1 /\ (d.rows = <<>> \/ d.columns = {})
        \/ i = 2 /\ \E c \in RequiredCols : ~Has(d, c)
        \/ i = 3 /\ Has(d, "Latency_ms")
                 /\ \E j \in 1..Len(d.rows) : d.rows[j].Latency_ms.k = "str"
        \/ i = 4 /\ Has(d, "Status")
                 /\ \E j \in 1..Len(d.rows) : d.rows[j].Status.k = "str"
        \/ i = 5 /\ Has(d, "Latency_ms")
                 /\ \E j \in 1..Len(d.rows) :
                        d.rows[j].Latency_ms.k = "num" /\ d.rows[j].Latency_ms.n < 0
        \/ i = 6 /\ Has(d, "Status")
                 /\ \E j \in 1..Len(d.rows) :
                        \/ d.rows[j].Status.k # "num"
                        \/ d.rows[j].Status.d # 1
                        \/ d.rows[j].Status.n < 100
                        \/ d.rows[j].Status.n > 599
        \/ i = 7 /\ Has(d, "Endpoint")
                 /\ \E j \in 1..Len(d.rows) : d.rows[j].Endpoint.k = "nan"
        \/ i = 8 /\ Has(d, "Timestamp")
                 /\ \E j \in 1..Len(d.rows) : d.rows[j].Timestamp.k = "str"}

CheckMessage ==
    <<"Empty dataset provided", "Missing columns", "Latency_ms must be numeric",
      "Status must be numeric", "Latency cannot be negative",
      "Invalid HTTP status codes (must be 100-599)", "Missing endpoint names",
      "Invalid timestamp format">>

Earliest(S) == CHOOSE i \in S : \A j \in S : i <= j

\* C1: validate_csv reports the earliest violated check of the fixed order
\* (non-empty, columns, Latency_ms numeric, Status numeric, no negative
\* latency, status in [100,599], no missing endpoint, timestamps parseable),
\* and returns (True, message with the record count) only when none is violated.
C1_EarliestViolatedCheck ==
    vres.called =>
        IF ViolatedChecks(df) = {}
        THEN /\ vres.is_valid
             /\ vres.message = "Valid dataset"
             /\ vres.count = Len(df.rows)
        ELSE /\ ~vres.is_valid
             /\ vres.message = CheckMessage[Earliest(ViolatedChecks(df))]

\* a table with a negative latency, a bad status, a missing endpoint and a bad
\* timestamp at once has been validated
C1_Witness ==
    /\ vres.called
    /\ {5, 6, 7, 8} \subseteq ViolatedChecks(df)
    /\ Earliest(ViolatedChecks(df)) = 5
    /\ vres.message = "Latency cannot be negative"

InputOf(i) == IF i = 1 THEN df ELSE out[i - 1]

\* C3: for a dataset that passes validation, the output of clean_data has no
\* null Latency_ms, Status or Endpoint, no latency below 10 (so none
\* negative), and with cap_outliers no latency above max(10, 99th percentile
\* of the non-null input latencies).
C3_CleanOutputBounded ==
    \A i \in 1..Len(out) :
        validate_csv(InputOf(i)).is_valid =>
            LET q == Quantile(Column(InputOf(i), "Latency_ms"), 99, 100)
            IN \A j \in 1..Len(out[i].rows) :
                LET r == out[i].rows[j]
                IN /\ r.Latency_ms.k = "num"
                   /\ r.Status.k = "num"
                   /\ r.Endpoint.k = "txt"
                   /\ r.Latency_ms.n >= 0
                   /\ RLe(R(10), Val(r.Latency_ms))
                   /\ cap => RLe(Val(r.Latency_ms), RMax(R(10), Val(q)))

\* a validated dataset was cleaned with capping: a null-latency row was
\* dropped, one latency was raised to the floor and one was pulled down to
\* the interpolated 99th percentile
C3_Witness ==
    /\ Len(out) >= 1 /\ cap /\ vres.is_valid
    /\ Len(out[1].rows) < Len(df.rows)
    /\ \E j \in 1..Len(out[1].rows) : out[1].rows[j].Latency_ms = Num(10)
    /\ \E j \in 1..Len(out[1].rows) :
            /\ out[1].rows[j].Latency_ms.d > 1
            /\ out[1].rows[j].Latency_ms =
                    Quantile(Column(df, "Latency_ms"), 99, 100)

\* C4: capping at the 99th percentile is idempotent: cleaning the cleaned
\* dataset again with cap_outliers leaves the latency values unchanged.
C4_CapIdempotent ==
    (Len(out) = 2 /\ cap /\ validate_csv(df).is_valid) =>
        Column(out[2], "Latency_ms") = Column(out[1], "Latency_ms")

----------------------------------------------------------------------------
(* Claims about the analysis run *)

\* C2: on an uploaded dataset a failed validation halts the run: detection,
\* baseline, impact and strategy steps are reached only for a dataset on
\* which validate_csv returns is_valid = True.
C2_FailedValidationHalts ==
    (data_source = "Upload CSV" /\ pc \in {"detected", "impact", "reported"})
        => validate_csv(heap[raw_df]).is_valid

\* C5: detect_operational_anomalies leaves the dataset object it was passed
\* with the columns and values it had, and returns a different object.
C5_DetectIsPure ==
    pc = "detected" =>
        /\ heap[detect_call.arg] = detect_call.before
        /\ processed_df # detect_call.arg

RunHasImpact == pc \in {"impact", "reported"}

\* C6: every record flagged anomalous has Wasted_ms >= 0, equal to the
\* latency minus the baseline when the latency is at least the baseline and
\* to 0 when it is below.
C6_WastedIsClippedExcess ==
    RunHasImpact =>
        LET all == heap[processed_df].rows
            anomalous == FilterRows(all, [k \in 1..Len(all) |-> IsAnomalous(all[k])])
            b == Val(baseline_latency)
        IN /\ Len(anomalies_calc.rows) = Len(anomalous)
           /\ \A i \in 1..Len(anomalous) :
                LET r == anomalies_calc.rows[i]
                    lat == Val(r.Latency_ms)
                IN /\ r.Latency_ms = anomalous[i].Latency_ms
                   /\ r.Wasted_ms.k = "num"
                   /\ r.Wasted_ms.n >= 0
                   /\ RLe(b, lat) => RAdd(Val(r.Wasted_ms), b) = lat
                   /\ RLt(lat, b) => r.Wasted_ms = Num(0)

\* a run flagged one record below the baseline and one above it
C6_Witness ==
    /\ pc = "impact"
    /\ \E i, j \in 1..Len(anomalies_calc.rows) :
        /\ RLt(Val(anomalies_calc.rows[i].Latency_ms), Val(baseline_latency))
        /\ anomalies_calc.rows[i].Wasted_ms = Num(0)
        /\ RLt(Val(baseline_latency), Val(anomalies_calc.rows[j].Latency_ms))
        /\ anomalies_calc.rows[j].Wasted_ms.n > 0

WastedOfEndpoint(e) ==
    LET rows == EndpointRows(anomalies_calc, e)
    IN SumR([i \in 1..Len(rows) |-> Val(rows[i].Wasted_ms)])

\* C7: in the ROI table every endpoint's wasted_hours is the sum of its
\* per-record Wasted_ms divided by 3,600,000 (rounded to 2 decimals), never
\* negative, and potential_savings is those hours times the hourly rate.
C7_RoiFromClippedWaste ==
    (pc = "reported" /\ validate_csv(heap[raw_df]).is_valid) =>
        \A e \in DOMAIN roi_data :
            LET hours == RDiv(WastedOfEndpoint(e), R(MS_PER_HOUR))
            IN /\ roi_data[e].wasted_hours.n >= 0
               /\ roi_data[e].wasted_hours = RoundTo(hours, 2)
               /\ roi_data[e].potential_savings =
                        RoundTo(RMul(hours, R(hourly_rate)), 2)

\* C8: the baseline is the mean latency of the records flagged normal when
\* there is one, and the 25th percentile of all latencies when there is none.
C8_BaselineFromNormalRecords ==
    RunHasImpact =>
        LET rows == heap[processed_df].rows
            normal == FilterRows(rows, [k \in 1..Len(rows) |-> IsNormal(rows[k])])
            s == SortAsc(Latencies(rows))
            lo == (Len(s) - 1) \div 4
            fr == (Len(s) - 1) % 4
        IN /\ baseline_latency.k = "num"
           /\ IF normal # <<>>
              THEN RMul(Val(baseline_latency), R(Len(normal)))
                        = SumR(Latencies(normal))
              ELSE RMul(Val(baseline_latency), R(4))
                        = RAdd(RMul(R(4 - fr), s[lo + 1]),
                               IF fr = 0 THEN R(0) ELSE RMul(R(fr), s[lo + 2]))

\* a run with normal and anomalous records whose overall mean differs from
\* the mean of the normal ones
C8_Witness ==
    /\ pc = "impact"
    /\ anomalies_calc.rows # <<>>
    /\ Len(anomalies_calc.rows) < Len(heap[processed_df].rows)
    /\ Val(baseline_latency) # MeanLatency(heap[processed_df].rows)

\* a run in which every record was flagged, so the 25th percentile is used
C8_FallbackReached ==
    /\ pc = "impact"
    /\ Len(anomalies_calc.rows) = Len(heap[processed_df].rows)
    /\ Len(anomalies_calc.rows) >= 2
    /\ baseline_latency.d > 1

----------------------------------------------------------------------------
(* Claims about the metrics functions *)

IsSeverityCall ==
    call.fn \in {"metrics.calculate_anomaly_severity",
                 "app.calculate_anomaly_severity"}

\* C9: for a baseline > 0 and latencies >= 0, every Severity_Score computed
\* by calculate_anomaly_severity, in metrics.py and in app.py, is in [0, 100].
C9_SeverityInRange ==
    (IsSeverityCall /\ call.baseline.n > 0) =>
        \A i \in 1..Len(call.ret.rows) :
            /\ call.ret.rows[i].Latency_ms = call.anomalies.rows[i].Latency_ms
            /\ call.ret.rows[i].Severity_Score.k = "num"
            /\ RLe(R(0), Val(call.ret.rows[i].Severity_Score))
            /\ RLe(Val(call.ret.rows[i].Severity_Score), R(100))

\* the app.py version scored a latency of more than twice a positive baseline
\* as 100 and a latency below the baseline as 0
C9_Witness ==
    /\ call.fn = "app.calculate_anomaly_severity"
    /\ call.baseline = R(150)
    /\ Len(call.ret.rows) = 2
    /\ call.ret.rows[1].Latency_ms = Num(90000)
    /\ call.ret.rows[1].Severity_Score = Num(100)
    /\ call.ret.rows[2].Latency_ms = Num(149)
    /\ call.ret.rows[2].Severity_Score = Num(0)

InPercent(x) == RLe(R(0), x) /\ RLe(x, R(100))

\* C10: for error_rate and compliance_rate in [0, 100] and any slope, the
\* three sub-scores are in [0, 100], health_score is their unweighted mean
\* rounded to 1 decimal and lies in [0, 100], and the status is Excellent
\* from 80, Good from 60 to below 80, Poor below 60.
C10_HealthScore ==
    (/\ call.fn = "generate_health_score"
     /\ InPercent(call.error_rate)
     /\ InPercent(call.compliance_rate)) =>
        LET e == IF RLe(R(50), call.error_rate) THEN R(0)
                 ELSE RSub(R(100), RAdd(call.error_rate, call.error_rate))
            c == call.compliance_rate
            a == [n |-> Abs(call.trend_slope.n), d |-> call.trend_slope.d]
            t == IF RLe(R(200), a) THEN R(0) ELSE RSub(R(100), RDiv(a, R(2)))
            total == RAdd(RAdd(e, c), t)
            h == call.ret.health_score
            off == RSub(RMul(h, R(3)), total)
        IN /\ InPercent(call.ret.error_score)
           /\ InPercent(call.ret.compliance_score)
           /\ InPercent(call.ret.trend_score)
           /\ InPercent(e) /\ InPercent(c) /\ InPercent(t)
           /\ call.ret.error_score = RoundTo(e, 1)
           /\ call.ret.compliance_score = RoundTo(c, 1)
           /\ call.ret.trend_score = RoundTo(t, 1)
           /\ InPercent(h)
           /\ 10 % h.d = 0
           /\ RLe(Norm(-15, 100), off) /\ RLe(off, Norm(15, 100))
           /\ (call.ret.health_status = "Excellent") = RLe(R(80), h)
           /\ (call.ret.health_status = "Good") = (RLe(R(60), h) /\ RLt(h, R(80)))
           /\ (call.ret.health_status = "Poor") = RLt(h, R(60))

\* a call whose error and trend sub-scores were floored at 0 and whose
\* overall score is the rounded mean 33.3, status Poor
C10_Witness ==
    /\ call.fn = "generate_health_score"
    /\ call.error_rate = R(100)
    /\ call.compliance_rate = R(100)
    /\ call.trend_slope = R(-1000)
    /\ call.ret.error_score = R(0)
    /\ call.ret.trend_score = R(0)
    /\ call.ret.health_score = Norm(333, 10)
    /\ call.ret.health_status = "Poor"

----------------------------------------------------------------------------
(* Claims about percentiles, endpoint aggregates and trend *)

\* Python's <= on two floats: False as soon as one of them is NaN
CellLe(a, b) == a.k = "num" /\ b.k = "num" /\ RLe(Val(a), Val(b))

\* C11 as stated: for any dataset, the percentiles computed by
\* calculate_percentiles, globally or filtered to one endpoint, satisfy
\* P50 <= P75 <= P95 <= P99
C11_PercentilesMonotonic ==
    call.fn = "calculate_percentiles" =>
        /\ CellLe(call.ret.P50, call.ret.P75)
        /\ CellLe(call.ret.P75, call.ret.P95)
        /\ CellLe(call.ret.P95, call.ret.P99)

\* the records calculate_percentiles was asked about
Selected ==
    {i \in 1..Len(call.data.rows) :
        call.endpoint \in {"", call.data.rows[i].Endpoint.s}}

\* C11: for any dataset and any selection, global or one endpoint, that
\* holds at least one latency, P50 <= P75 <= P95 <= P99 and every
\* percentile lies between the least and the greatest selected latency
C11_PercentilesMonotonicWhenSelected ==
    (call.fn = "calculate_percentiles" /\ Selected # {}) =>
        /\ CellLe(call.ret.P50, call.ret.P75)
        /\ CellLe(call.ret.P75, call.ret.P95)
        /\ CellLe(call.ret.P95, call.ret.P99)
        /\ \E i \in Selected : CellLe(call.data.rows[i].Latency_ms, call.ret.P50)
        /\ \E i \in Selected : CellLe(call.ret.P99, call.data.rows[i].Latency_ms)

\* three records of two endpoints, filtered to the endpoint with latencies
\* 10 and 1500: the four percentiles are distinct and increasing
C11_Witness ==
    /\ call.fn = "calculate_percentiles"
    /\ call.endpoint = "/api/v1/search/query"
    /\ Cardinality(Selected) = 2
    /\ Len(call.data.rows) = 3
    /\ call.ret.P50 = Num(755)
    /\ call.ret.P75 = NumR(Norm(22550, 20))
    /\ call.ret.P95 = NumR(Norm(28510, 20))
    /\ call.ret.P99 = NumR(Norm(14851, 10))

IsAggregateCall ==
    call.fn \in {"metrics.calculate_endpoint_metrics", "app.calculate_endpoint_metrics"}

RecordsOf(d, e) ==
    {i \in 1..Len(d.rows) : d.rows[i].Endpoint = Txt(e)}

\* C15: the endpoint aggregates of both versions hold exactly one row per
\* distinct endpoint; Total_Requests is the number of its records,
\* Error_Count the number of its records with Status >= 500, and Error_Rate
\* is Error_Count / Total_Requests * 100 rounded to two decimals.  Stated
\* for datasets whose every record has a latency.
C15_EndpointAggregates ==
    (/\ IsAggregateCall
     /\ \A i \in 1..Len(call.data.rows) : call.data.rows[i].Latency_ms.k = "num")
        =>
        LET d == call.data
            endpoints == {d.rows[i].Endpoint.s : i \in 1..Len(d.rows)}
        IN /\ DOMAIN call.ret = endpoints
           /\ \A e \in endpoints :
                LET recs == RecordsOf(d, e)
                    errs == {i \in recs : RLe(R(500), Val(d.rows[i].Status))}
                    row == call.ret[e]
                IN /\ row.Total_Requests = Cardinality(recs)
                   /\ row.Error_Count = Cardinality(errs)
                   /\ row.Error_Rate =
                        NumR(RoundTo(Norm(100 * Cardinality(errs), Cardinality(recs)), 2))

\* the metrics.py version alone meets the statement of C15 (holds)
MetricsAggregatesAsStated ==
    call.fn = "metrics.calculate_endpoint_metrics" => C15_EndpointAggregates

\* C16: calculate_latency_trends answers 'Insufficient data' with slope 0
\* exactly when the records span fewer than two distinct hour buckets;
\* otherwise the reported slope is the least-squares slope of the hourly
\* mean latency in milliseconds per hour, rounded to two decimals, and the
\* trend is Degrading above 5, Improving below -5 and Stable in [-5, 5]
C16_TrendPerHour ==
    call.fn = "calculate_latency_trends" =>
        LET d == call.data
            hours == SortedInts({d.rows[i].Timestamp.h : i \in 1..Len(d.rows)})
            y == [i \in 1..Len(hours) |->
                    LET recs == {j \in 1..Len(d.rows) : d.rows[j].Timestamp.h = hours[i]}
                        one == CHOOSE f \in [1..Cardinality(recs) -> recs] :
                                    \A a, b \in 1..Cardinality(recs) : a # b => f[a] # f[b]
                    IN RDiv(SumR([k \in 1..Cardinality(recs) |-> Val(d.rows[one[k]].Latency_ms)]),
                            R(Cardinality(recs)))]
        IN IF Len(hours) < 2
           THEN call.ret.trend = "Insufficient data" /\ call.ret.slope = R(0)
           ELSE LET per_hour == LeastSquaresSlope(hours, y)
                IN /\ call.ret.trend # "Insufficient data"
                   /\ call.ret.slope = RoundTo(per_hour, 2)
                   /\ (call.ret.trend = "Degrading") = RLt(R(5), per_hour)
                   /\ (call.ret.trend = "Improving") = RLt(per_hour, R(-5))
                   /\ (call.ret.trend = "Stable") =
                        (RLe(R(-5), per_hour) /\ RLe(per_hour, R(5)))

\* the statement of C16 on datasets whose hour buckets are consecutive
\* (holds; it shows that C16 fails on gapped buckets only)
TrendPerHourWhenConsecutive ==
    (/\ call.fn = "calculate_latency_trends"
     /\ \A i \in 1..Len(call.data.rows) : call.data.rows[i].Timestamp.h \in {0, 1})
        => C16_TrendPerHour

----------------------------------------------------------------------------
(* Claims about the strategy functions *)

\* the thresholds the statement names, per template name
StatedThresholds(level) ==
    IF level = "aggressive" THEN [P50 |-> 100, P95 |-> 250, P99 |-> 500]
    ELSE IF level = "relaxed" THEN [P50 |-> 500, P95 |-> 2000, P99 |-> 5000]
    ELSE [P50 |-> 200, P95 |-> 500, P99 |-> 1000]

\* C12: evaluate_against_sla uses the standard thresholds 200/500/1000 for a
\* template name other than aggressive, standard, relaxed; for every
\* template each pXX_compliant is true exactly when the given percentile is
\* <= the template threshold, and all_compliant exactly when all three are
C12_SlaEvaluation ==
    call.fn = "evaluate_against_sla" =>
        LET t == StatedThresholds(call.sla_level)
            p == call.percentiles
            given(k) == k \in DOMAIN p
            le(k) == p[k].k = "num" /\ RLe(Val(p[k]), R(t[k]))
        IN /\ given("P50") => (call.ret.p50_compliant = le("P50"))
           /\ given("P95") => (call.ret.p95_compliant = le("P95"))
           /\ given("P99") => (call.ret.p99_compliant = le("P99"))
           /\ call.ret.all_compliant =
                (/\ call.ret.p50_compliant
                 /\ call.ret.p95_compliant
                 /\ call.ret.p99_compliant)
           /\ call.ret.sla_level = call.sla_level

\* an unknown template name with P50 on the standard threshold and P95 one
\* hundredth above it
C12_Witness ==
    /\ call.fn = "evaluate_against_sla"
    /\ call.sla_level = "premium"
    /\ DOMAIN call.percentiles = {"P50", "P75", "P95", "P99"}
    /\ call.percentiles["P50"] = Num(200)
    /\ call.percentiles["P95"] = NumR(Norm(50001, 100))
    /\ call.percentiles["P99"] = Num(1000)
    /\ call.ret.p50_compliant
    /\ ~call.ret.p95_compliant
    /\ call.ret.p99_compliant
    /\ ~call.ret.all_compliant

\* the keyword groups of the table, in definition order
StatedKeywords ==
    << {"search", "query"}, {"report", "export"},
       {"transaction", "payment", "checkout"}, {"auth", "login", "oauth", "jwt"},
       {"upload", "file", "media"}, {"profile", "user", "account"},
       {"notification", "email", "sms"}, {"database", "sql"} >>

\* the groups with a keyword occurring in the lower-cased endpoint
GroupsHit(e) ==
    {g \in 1..Len(StatedKeywords) : \E kw \in StatedKeywords[g] : Contains(kw, Lower(e))}

\* C13: get_strategy_for_endpoint returns the endpoint unchanged with exactly
\* 3 steps; the plan is the one of the first keyword group, in definition
\* order, with a keyword occurring in the lower-cased endpoint, and the
\* generic fallback plan when no group matches
C13_FirstMatchIgnoringCase ==
    call.fn = "get_strategy_for_endpoint" =>
        LET e == call.worst_endpoint
            plan == call.ret[2]
            hit == GroupsHit(e)
        IN /\ call.ret[1] = e
           /\ Len(plan) = 3
           /\ \A g \in hit :
                (\A h \in hit : g <= h) =>
                    /\ plan[1] = "**Immediate Mitigation:** " \o STRATEGY_PATTERNS[g].immediate
                    /\ plan[2] = "**Root Cause Analysis:** " \o STRATEGY_PATTERNS[g].root_cause
                    /\ plan[3] = "**Long Term Strategy:** " \o STRATEGY_PATTERNS[g].long_term
           /\ hit = {} =>
                /\ Contains("Review application logs for '" \o e \o "'", plan[1])
                /\ Contains("Check CPU/memory saturation", plan[2])
                /\ Contains("Profile '" \o e \o "' with flame graphs", plan[3])
           /\ e = "/API/V1/Search/Query" =>
                plan[1] = "**Immediate Mitigation:** Implement Redis/Memcached layer for query results caching"
           /\ e = "/api/v1/user/search" =>
                plan[3] = "**Long Term Strategy:** Migrate to event-driven CQRS pattern with projection layer"

\* the mixed-case endpoint answered with the search|query plan
C13_Witness ==
    /\ call.fn = "get_strategy_for_endpoint"
    /\ call.worst_endpoint = "/API/V1/Search/Query"
    /\ call.ret[1] = "/API/V1/Search/Query"
    /\ Len(call.ret[2]) = 3
    /\ call.ret[2][2] =
        "**Root Cause Analysis:** ElasticSearch indices unoptimized, missing shards, or network latency"

StartsWith(s, prefix) ==
    Len(s) >= Len(prefix) /\ SubSeq(s, 1, Len(prefix)) = prefix

\* positions of the items of a list that start with a prefix
Positions(list, prefix) == {i \in 1..Len(list) : StartsWith(list[i], prefix)}

IsQuickWinsCall == call.fn = "get_quick_wins"

\* the generic tail and the triggered items of a get_quick_wins result
QuickWinsShape ==
    LET wins == call.ret
        m == Len(wins)
        high == Positions(wins, "**High Priority**")
        critical == Positions(wins, "**Critical**")
        roi == Positions(wins, "**ROI Alert**: $")
    IN /\ m >= 3
       /\ StartsWith(wins[m - 2], "**Easy Win**: Add request-level caching (HTTP headers")
       /\ StartsWith(wins[m - 1], "**Quick Fix**: Implement database query result caching")
       /\ StartsWith(wins[m], "**Infrastructure**: Verify connection pools")
       /\ Cardinality(high) = (IF call.anomalies_count > 100 THEN 1 ELSE 0)
       /\ Cardinality(critical) = (IF call.anomalies_count > 500 THEN 1 ELSE 0)
       /\ Cardinality(roi) = (IF RLt(R(500), call.financial_loss) THEN 1 ELSE 0)
       /\ m = 3 + Cardinality(high \cup critical \cup roi)
       /\ \A i \in high \cup critical \cup roi : i <= m - 3

\* C14 as stated: the result ends with the three generic suggestions, preceded
\* by exactly the triggered items, and both anomaly-count items come before
\* the financial-loss item
C14_CountItemsBeforeLossItem ==
    IsQuickWinsCall =>
        /\ QuickWinsShape
        /\ \A i \in Positions(call.ret, "**High Priority**") \cup
                    Positions(call.ret, "**Critical**") :
             \A j \in Positions(call.ret, "**ROI Alert**: $") : i < j

\* C14: the result ends with the three generic suggestions, preceded by
\* exactly the triggered items in the order: the anomaly_count > 100 item,
\* the financial_loss > 500 item, the anomaly_count > 500 item
C14_QuickWinsOrder ==
    IsQuickWinsCall =>
        /\ QuickWinsShape
        /\ \A i \in Positions(call.ret, "**High Priority**") :
             \A j \in Positions(call.ret, "**ROI Alert**: $") \cup
                      Positions(call.ret, "**Critical**") : i < j
        /\ \A i \in Positions(call.ret, "**ROI Alert**: $") :
             \A j \in Positions(call.ret, "**Critical**") : i < j

\* all three conditions hold: six items, the loss 1234.5 shown as $1234
C14_Witness ==
    /\ IsQuickWinsCall
    /\ call.anomalies_count = 501
    /\ call.financial_loss = Norm(2469, 2)
    /\ Len(call.ret) = 6
    /\ StartsWith(call.ret[1], "**High Priority**")
    /\ StartsWith(call.ret[2], "**ROI Alert**: $1234 cost/day")
    /\ StartsWith(call.ret[3], "**Critical**")

IsAgentCall == call.fn = "run_executive_agent_analysis"

\* summed Wasted_ms of the anomalous records of one endpoint
WastedSum(d, e) ==
    LET recs == {i \in 1..Len(d.rows) : d.rows[i].Endpoint = Txt(e)}
        one == CHOOSE f \in [1..Cardinality(recs) -> recs] :
                    \A a, b \in 1..Cardinality(recs) : a # b => f[a] # f[b]
    IN SumR([k \in 1..Cardinality(recs) |-> Val(d.rows[one[k]].Wasted_ms)])

\* C19: for every non-empty anomaly set the worst endpoint returned by
\* run_executive_agent_analysis has a maximal summed Wasted_ms among the
\* endpoints of the anomalies
C19_WorstEndpointWastesMost ==
    (IsAgentCall /\ call.data.rows # <<>>) =>
        LET d == call.data
            endpoints == {d.rows[i].Endpoint.s : i \in 1..Len(d.rows)}
        IN /\ call.ret[1] \in endpoints
           /\ \A e \in endpoints :
                RLe(WastedSum(d, e), WastedSum(d, call.ret[1]))

\* the rule group a plan of app.py stands for: 1 search, 2 report,
\* 3 transaction, 0 the fallback
AgentGroup(plan) ==
    IF Contains("Redis Caching", plan[1]) THEN 1
    ELSE IF Contains("Async Job Queue", plan[1]) THEN 2
    ELSE IF Contains("Scale horizontal pods", plan[1]) THEN 3
    ELSE 0

\* the rule group of a plan of the strategy engine, 0 for the fallback
EngineGroup(plan) ==
    IF \E g \in 1..Len(STRATEGY_PATTERNS) :
            plan[1] = "**Immediate Mitigation:** " \o STRATEGY_PATTERNS[g].immediate
    THEN CHOOSE g \in 1..Len(STRATEGY_PATTERNS) :
            plan[1] = "**Immediate Mitigation:** " \o STRATEGY_PATTERNS[g].immediate
    ELSE 0

\* C20: for every worst endpoint, run_executive_agent_analysis selects the
\* rule group, or the fallback, that get_strategy_for_endpoint selects for
\* that endpoint
C20_AgentAgreesWithEngine ==
    (IsAgentCall /\ call.data.rows # <<>>) =>
        AgentGroup(call.ret[2]) =
            EngineGroup(get_strategy_for_endpoint(call.ret[1])[2])

\* the two agree on the lower-case search, report and transactions endpoints
AgentAgreesOnItsOwnKeywords ==
    (/\ IsAgentCall
     /\ call.data.rows # <<>>
     /\ call.ret[1] \in {"/api/v1/search/query", "/api/v1/reports/generate",
                         "/api/v1/transactions/create"})
        => C20_AgentAgreesWithEngine

----------------------------------------------------------------------------
(* Claims about the report of the run and about validated datasets *)

\* C17: on a dataset that passes validation the report step does not fail;
\* with zero anomalies run_executive_agent_analysis returns the 'no debt
\* detected' sentinel with an empty step list, the ROI table is empty and
\* total wasted hours and financial loss are 0; with a non-empty anomaly set
\* it returns an endpoint occurring among the anomalies and exactly 3 steps
C17_ZeroAnomaliesReport ==
    [][(pc = "impact" /\ validate_csv(heap[raw_df]).is_valid) =>
        /\ pc' = "reported"
        /\ IF anomalies_calc.rows = <<>>
           THEN /\ strategy'[1] = "No significant debt detected. Systems operational."
                /\ strategy'[2] = <<>>
                /\ DOMAIN roi_data' = {}
                /\ total_wasted_hours' = R(0)
                /\ financial_loss' = R(0)
           ELSE /\ \E i \in 1..Len(anomalies_calc.rows) :
                        anomalies_calc.rows[i].Endpoint = Txt(strategy'[1])
                /\ Len(strategy'[2]) = 3
                /\ \A k \in 1..3 : strategy'[2][k] # ""]_vars

\* a reported run over three valid records none of which was flagged
C17_Witness ==
    /\ pc = "reported"
    /\ validate_csv(heap[raw_df]).is_valid
    /\ Len(heap[processed_df].rows) = 3
    /\ anomalies_calc.rows = <<>>
    /\ strategy = <<"No significant debt detected. Systems operational.", <<>> >>
    /\ DOMAIN roi_data = {}
    /\ financial_loss = R(0)

\* a reported run with anomalies: the worst endpoint and its three steps
ReportedWithAnomalies ==
    /\ pc = "reported"
    /\ validate_csv(heap[raw_df]).is_valid
    /\ Len(anomalies_calc.rows) = 2
    /\ strategy[1] = "/api/v1/reports/generate"
    /\ Len(strategy[2]) = 3

\* C18: every dataset for which validate_csv returns is_valid = True has in
\* every record a parseable timestamp, a present non-negative latency, a
\* non-empty endpoint and a status in [100, 599]
C18_ValidMeansDatasetInvariant ==
    (vres.called /\ vres.is_valid) =>
        \A i \in 1..Len(df.rows) :
            LET r == df.rows[i]
            IN /\ r.Timestamp.k \in {"tstr", "ts"}
               /\ r.Latency_ms.k = "num"
               /\ RLe(R(0), Val(r.Latency_ms))
               /\ r.Endpoint.k = "txt"
               /\ r.Endpoint.s # ""
               /\ r.Status.k = "num"
               /\ RLe(R(100), Val(r.Status))
               /\ RLe(Val(r.Status), R(599))

\* apart from the latency being present, the invariant holds of every
\* dataset declared valid
ValidMeansInvariantButLatency ==
    (vres.called /\ vres.is_valid) =>
        \A i \in 1..Len(df.rows) :
            LET r == df.rows[i]
            IN /\ r.Timestamp.k \in {"tstr", "ts"}
               /\ r.Latency_ms.k = "num" => RLe(R(0), Val(r.Latency_ms))
               /\ r.Endpoint.k = "txt"
               /\ r.Endpoint.s # ""
               /\ r.Status.k = "num"
               /\ RLe(R(100), Val(r.Status))
               /\ RLe(Val(r.Status), R(599))

=============================================================================
